---- MODULE Spec2Model ----
(***************************************************************************)
(* Model of src/src/ViteBetti.py: CubeMap (construction of the cubical     *)
(* complex of a 3-D occupancy array) and EulerCharacteristic_seq (the      *)
(* alternating sum over a 3-D 0/1 array).                                  *)
(*                                                                         *)
(* An array is a record [shape, data]: shape is the tuple numpy reports    *)
(* (arr.shape), data maps every 0-based index tuple to the stored value.   *)
(* One behaviour is one use of the module on one input array: either       *)
(* CubeMap(arr) followed by EulerCharacteristic_seq of the array it        *)
(* returned, or EulerCharacteristic_seq(arr) directly.  Every loop body    *)
(* execution (one cell visit) is one step.                                 *)
(***************************************************************************)
EXTENDS Integers, Sequences, FiniteSets, TLC

\* Largest axis extent and largest number of elements of an input array.
MaxDim == 3
MaxCells == 8

VARIABLES arr, fn, pc, pos, cubemap, A, chi, exc

vars == <<arr, fn, pc, pos, cubemap, A, chi, exc>>

----------------------------------------------------------------------------
\* Arrays

Prod(s) ==
  IF Len(s) = 2 THEN s[1] * s[2]
  ELSE IF Len(s) = 3 THEN s[1] * s[2] * s[3]
  ELSE s[1] * s[2] * s[3] * s[4]

\* The index tuples of an array of the given shape (0-based, as in numpy).
Cells(s) ==
  IF Len(s) = 2 THEN (0..(s[1]-1)) \X (0..(s[2]-1))
  ELSE IF Len(s) = 3 THEN (0..(s[1]-1)) \X (0..(s[2]-1)) \X (0..(s[3]-1))
  ELSE (0..(s[1]-1)) \X (0..(s[2]-1)) \X (0..(s[3]-1)) \X (0..(s[4]-1))

Ext == 0..MaxDim

Shapes ==
  {s \in (Ext \X Ext) \cup (Ext \X Ext \X Ext) \cup (Ext \X Ext \X Ext \X Ext) :
     Prod(s) <= MaxCells}

\* Every 0/1 array of rank 2, 3 or 4 within the bounds.
Arrays ==
  UNION {{[shape |-> s, data |-> d] : d \in [Cells(s) -> {0, 1}]} : s \in Shapes}

\* np.zeros(shape)
Zeros(s) == [c \in Cells(s) |-> 0]

----------------------------------------------------------------------------
\* The nested  for i / for j / for k  scan

First == <<0, 0, 0>>

Last(s) == <<s[1] - 1, s[2] - 1, s[3] - 1>>

NextPos(s, p) ==
  IF p[3] + 1 < s[3] THEN <<p[1], p[2], p[3] + 1>>
  ELSE IF p[2] + 1 < s[2] THEN <<p[1], p[2] + 1, 0>>
  ELSE <<p[1] + 1, 0, 0>>

----------------------------------------------------------------------------
\* CubeMap

\* Nx, Ny, Nz = 2*nx-1, 2*ny-1, 2*nz-1
OutShape(s) == <<2 * s[1] - 1, 2 * s[2] - 1, 2 * s[3] - 1>>

\* Variant: "or" written for "and" in the x-neighbour test.
XPair_or(cm, N, c) ==
  \/ cm[<<(c[1] - 1) % N[1], c[2], c[3]>>] # 0
  \/ cm[<<(c[1] + 1) % N[1], c[2], c[3]>>] # 0

\* cubemap[(i-1)%Nx,j,k] and cubemap[(i+1)%Nx,j,k]
XPair(cm, N, c) ==
  /\ cm[<<(c[1] - 1) % N[1], c[2], c[3]>>] # 0
  /\ cm[<<(c[1] + 1) % N[1], c[2], c[3]>>] # 0

\* Variant: "or" written for "and" in the y-neighbour test.
YPair_or(cm, N, c) ==
  \/ cm[<<c[1], (c[2] - 1) % N[2], c[3]>>] # 0
  \/ cm[<<c[1], (c[2] + 1) % N[2], c[3]>>] # 0

\* cubemap[i,(j-1)%Ny,k] and cubemap[i,(j+1)%Ny,k]
YPair(cm, N, c) ==
  /\ cm[<<c[1], (c[2] - 1) % N[2], c[3]>>] # 0
  /\ cm[<<c[1], (c[2] + 1) % N[2], c[3]>>] # 0

\* Variant: "or" written for "and" in the z-neighbour test.
ZPair_or(cm, N, c) ==
  \/ cm[<<c[1], c[2], (c[3] - 1) % N[3]>>] # 0
  \/ cm[<<c[1], c[2], (c[3] + 1) % N[3]>>] # 0

\* cubemap[i,j,(k-1)%Nz] and cubemap[i,j,(k+1)%Nz]
ZPair(cm, N, c) ==
  /\ cm[<<c[1], c[2], (c[3] - 1) % N[3]>>] # 0
  /\ cm[<<c[1], c[2], (c[3] + 1) % N[3]>>] # 0

\* Variant: the x rule of the edges pass tests the upper neighbour only.
EdgeRule_oneSided(cm, N, c) ==
  IF cm[<<(c[1] + 1) % N[1], c[2], c[3]>>] # 0 THEN TRUE
  ELSE IF YPair(cm, N, c) THEN TRUE
  ELSE ZPair(cm, N, c)

\* Variant: the last elif (the z rule) of the edges pass is missing.
EdgeRule_noZ(cm, N, c) ==
  IF XPair(cm, N, c) THEN TRUE
  ELSE YPair(cm, N, c)

\* The if / elif / elif cascade of the edges pass.
EdgeRule(cm, N, c) ==
  IF XPair(cm, N, c) THEN TRUE
  ELSE IF YPair(cm, N, c) THEN TRUE
  ELSE ZPair(cm, N, c)

\* Variant: the last elif (the z-x combination) of the faces pass is missing.
FaceRule_noZX(cm, N, c) ==
  IF XPair(cm, N, c) /\ YPair(cm, N, c) THEN TRUE
  ELSE YPair(cm, N, c) /\ ZPair(cm, N, c)

\* The if / elif / elif cascade of the faces pass.
FaceRule(cm, N, c) ==
  IF XPair(cm, N, c) /\ YPair(cm, N, c) THEN TRUE
  ELSE IF YPair(cm, N, c) /\ ZPair(cm, N, c) THEN TRUE
  ELSE ZPair(cm, N, c) /\ XPair(cm, N, c)

\* The three nested ifs of the cubes pass.
CubeRule(cm, N, c) ==
  IF XPair(cm, N, c)
  THEN IF YPair(cm, N, c) THEN ZPair(cm, N, c) ELSE FALSE
  ELSE FALSE

\* Variant: the occupancy test is inverted.
VerticesVisit_inv(cm, a, c) ==
  IF a.data[c] = 0
  THEN [cm EXCEPT ![<<c[1] * 2, c[2] * 2, c[3] * 2>>] = 1]
  ELSE cm

\* if arr[i,j,k]: cubemap[i*2,j*2,k*2] = 1
VerticesVisit(cm, a, c) ==
  IF a.data[c] # 0
  THEN [cm EXCEPT ![<<c[1] * 2, c[2] * 2, c[3] * 2>>] = 1]
  ELSE cm

EdgesVisit(cm, N, c) ==
  IF cm[c] = 0 /\ EdgeRule(cm, N, c) THEN [cm EXCEPT ![c] = 1] ELSE cm

FacesVisit(cm, N, c) ==
  IF cm[c] = 0 /\ FaceRule(cm, N, c) THEN [cm EXCEPT ![c] = 1] ELSE cm

CubesVisit(cm, N, c) ==
  IF cm[c] = 0 /\ CubeRule(cm, N, c) THEN [cm EXCEPT ![c] = 1] ELSE cm

----------------------------------------------------------------------------
\* EulerCharacteristic_seq

\* Variant: z is left out of the parity test.
EulerVisit_xy(x, a, c) ==
  IF a.data[c] = 1
  THEN IF (c[1] + c[2]) % 2 = 0 THEN x + 1 ELSE x - 1
  ELSE x

\* if A[x,y,z] == 1:  chi += 1 if (x+y+z)%2 == 0 else chi -= 1
EulerVisit(x, a, c) ==
  IF a.data[c] = 1
  THEN IF (c[1] + c[2] + c[3]) % 2 = 0 THEN x + 1 ELSE x - 1
  ELSE x

----------------------------------------------------------------------------
\* The state machine

Init ==
  /\ arr \in Arrays
  /\ fn = "none"
  /\ pc = "start"
  /\ pos = First
  /\ cubemap = <<>>
  /\ A = <<>>
  /\ chi = 0
  /\ exc = "none"

\* Variant: the failed unpacking is swallowed and the call returns.
CubeMapUnpackError_swallow ==
  /\ pc = "start"
  /\ Len(arr.shape) # 3
  /\ fn' = "CubeMap"
  /\ pc' = "returned"
  /\ UNCHANGED <<arr, pos, cubemap, A, chi, exc>>

\* nx, ny, nz = arr.shape  with a shape that is not a 3-tuple: ValueError.
CubeMapUnpackError ==
  /\ pc = "start"
  /\ Len(arr.shape) # 3
  /\ fn' = "CubeMap"
  /\ pc' = "raised"
  /\ exc' = "ValueError"
  /\ UNCHANGED <<arr, pos, cubemap, A, chi>>

\* Variant: a negative extent is clamped and an empty array is returned.
CubeMapZerosError_clamp ==
  /\ pc = "start"
  /\ Len(arr.shape) = 3
  /\ \E a \in 1..3 : OutShape(arr.shape)[a] < 0
  /\ fn' = "CubeMap"
  /\ pc' = "returned"
  /\ UNCHANGED <<arr, pos, cubemap, A, chi, exc>>

\* np.zeros((Nx,Ny,Nz)) with a negative extent (an axis of length 0):
\* ValueError, negative dimensions are not allowed.
CubeMapZerosError ==
  /\ pc = "start"
  /\ Len(arr.shape) = 3
  /\ \E a \in 1..3 : OutShape(arr.shape)[a] < 0
  /\ fn' = "CubeMap"
  /\ pc' = "raised"
  /\ exc' = "ValueError"
  /\ UNCHANGED <<arr, pos, cubemap, A, chi>>

CubeMapEnter ==
  /\ pc = "start"
  /\ Len(arr.shape) = 3
  /\ \A a \in 1..3 : OutShape(arr.shape)[a] >= 0
  /\ fn' = "CubeMap"
  /\ cubemap' = Zeros(OutShape(arr.shape))
  /\ pc' = "vertices"
  /\ pos' = First
  /\ UNCHANGED <<arr, A, chi, exc>>

VerticesStep ==
  /\ pc = "vertices"
  /\ cubemap' = VerticesVisit(cubemap, arr, pos)
  /\ IF pos = Last(arr.shape)
     THEN pc' = "edges" /\ pos' = First
     ELSE pc' = pc /\ pos' = NextPos(arr.shape, pos)
  /\ UNCHANGED <<arr, fn, A, chi, exc>>

EdgesStep ==
  /\ pc = "edges"
  /\ cubemap' = EdgesVisit(cubemap, OutShape(arr.shape), pos)
  /\ IF pos = Last(OutShape(arr.shape))
     THEN pc' = "faces" /\ pos' = First
     ELSE pc' = pc /\ pos' = NextPos(OutShape(arr.shape), pos)
  /\ UNCHANGED <<arr, fn, A, chi, exc>>

FacesStep ==
  /\ pc = "faces"
  /\ cubemap' = FacesVisit(cubemap, OutShape(arr.shape), pos)
  /\ IF pos = Last(OutShape(arr.shape))
     THEN pc' = "cubes" /\ pos' = First
     ELSE pc' = pc /\ pos' = NextPos(OutShape(arr.shape), pos)
  /\ UNCHANGED <<arr, fn, A, chi, exc>>

\* The last visit of the cubes pass is followed by  return cubemap.
CubesStep ==
  /\ pc = "cubes"
  /\ cubemap' = CubesVisit(cubemap, OutShape(arr.shape), pos)
  /\ IF pos = Last(OutShape(arr.shape))
     THEN pc' = "cm_returned" /\ pos' = First
     ELSE pc' = pc /\ pos' = NextPos(OutShape(arr.shape), pos)
  /\ UNCHANGED <<arr, fn, A, chi, exc>>

\* nx,ny,nz = A.shape  with a shape that is not a 3-tuple: ValueError
\* (chi = 0 has been assigned, nothing is returned).
EulerUnpackError ==
  /\ pc = "start"
  /\ Len(arr.shape) # 3
  /\ fn' = "EulerCharacteristic_seq"
  /\ A' = arr
  /\ chi' = 0
  /\ pc' = "raised"
  /\ exc' = "ValueError"
  /\ UNCHANGED <<arr, pos, cubemap>>

\* EulerCharacteristic_seq is called on the input array, or on the array
\* CubeMap returned.  With an axis of length 0 no loop body runs and the
\* function returns chi = 0.
EulerEnter ==
  /\ \/ /\ pc = "start"
        /\ Len(arr.shape) = 3
        /\ A' = arr
     \/ /\ pc = "cm_returned"
        /\ A' = [shape |-> OutShape(arr.shape), data |-> cubemap]
  /\ fn' = "EulerCharacteristic_seq"
  /\ chi' = 0
  /\ pos' = First
  /\ pc' = IF Cells(A'.shape) = {} THEN "returned" ELSE "euler"
  /\ UNCHANGED <<arr, cubemap, exc>>

EulerStep ==
  /\ pc = "euler"
  /\ chi' = EulerVisit(chi, A, pos)
  /\ IF pos = Last(A.shape)
     THEN pc' = "returned" /\ pos' = First
     ELSE pc' = pc /\ pos' = NextPos(A.shape, pos)
  /\ UNCHANGED <<arr, fn, cubemap, A, exc>>

Next ==
  \/ CubeMapUnpackError
  \/ CubeMapZerosError
  \/ CubeMapEnter
  \/ VerticesStep
  \/ EdgesStep
  \/ FacesStep
  \/ CubesStep
  \/ EulerUnpackError
  \/ EulerEnter
  \/ EulerStep

Spec == Init /\ [][Next]_vars

----------------------------------------------------------------------------
\* CubeMap as a function of its argument: the four passes run to completion
\* in the scan order of the loops, each visit applied to the buffer as the
\* earlier visits left it.  A scan ends when the next position lies outside
\* the array scanned.

RECURSIVE VerticesFrom(_, _, _)
VerticesFrom(cm, a, p) ==
  LET cm2 == VerticesVisit(cm, a, p)
  IN IF NextPos(a.shape, p) \notin DOMAIN a.data THEN cm2
     ELSE VerticesFrom(cm2, a, NextPos(a.shape, p))

RECURSIVE EdgesFrom(_, _, _)
EdgesFrom(cm, N, p) ==
  LET cm2 == EdgesVisit(cm, N, p)
  IN IF NextPos(N, p) \notin DOMAIN cm2 THEN cm2
     ELSE EdgesFrom(cm2, N, NextPos(N, p))

RECURSIVE FacesFrom(_, _, _)
FacesFrom(cm, N, p) ==
  LET cm2 == FacesVisit(cm, N, p)
  IN IF NextPos(N, p) \notin DOMAIN cm2 THEN cm2
     ELSE FacesFrom(cm2, N, NextPos(N, p))

RECURSIVE CubesFrom(_, _, _)
CubesFrom(cm, N, p) ==
  LET cm2 == CubesVisit(cm, N, p)
  IN IF NextPos(N, p) \notin DOMAIN cm2 THEN cm2
     ELSE CubesFrom(cm2, N, NextPos(N, p))

CubeMapOf(a) ==
  LET N == OutShape(a.shape)
      v == VerticesFrom(Zeros(N), a, First)
      e == EdgesFrom(v, N, First)
      f == FacesFrom(e, N, First)
  IN CubesFrom(f, N, First)

\* The occupancy grids CubeMap accepts: rank 3, every extent at least 1.
Grids == {a \in Arrays : Len(a.shape) = 3 /\ Cells(a.shape) # {}}

----------------------------------------------------------------------------
\* The variant of CubeMap in which every cell of the edges pass and of the
\* faces pass is evaluated against the buffer as it stood before that pass.

JacobiEdges(cm, N) ==
  [c \in DOMAIN cm |-> IF cm[c] = 0 /\ EdgeRule(cm, N, c) THEN 1 ELSE cm[c]]

JacobiFaces(cm, N) ==
  [c \in DOMAIN cm |-> IF cm[c] = 0 /\ FaceRule(cm, N, c) THEN 1 ELSE cm[c]]

JacobiCubeMap(a) ==
  LET N == OutShape(a.shape)
      v == VerticesFrom(Zeros(N), a, First)
      e == JacobiEdges(v, N)
      f == JacobiFaces(e, N)
  IN CubesFrom(f, N, First)

----------------------------------------------------------------------------
\* Vocabulary of the properties

\* CubeMap has allocated its buffer in this behaviour.
Built == DOMAIN cubemap # {}

\* CubeMap has returned (and EulerCharacteristic_seq may be running on, or
\* have returned from, the array it returned).
CubeMapDone == Built /\ pc \in {"cm_returned", "euler", "returned"}

\* Number of odd coordinates of a lattice cell: its dimension.
NOdd(c) == (c[1] % 2) + (c[2] % 2) + (c[3] % 2)

Step(c, a, d) == [c EXCEPT ![a] = c[a] + d]

CoordCorners(v) == IF v % 2 = 0 THEN {v \div 2} ELSE {(v - 1) \div 2, (v + 1) \div 2}

\* The voxels at the corners of a lattice cell, without wrap-around.
Corners(c) == CoordCorners(c[1]) \X CoordCorners(c[2]) \X CoordCorners(c[3])

Ones(a) == {c \in DOMAIN a.data : a.data[c] = 1}

CountDim(a, d) == Cardinality({c \in Ones(a) : NOdd(c) = d})

Rank3 == Len(arr.shape) = 3

ZeroAxis == Rank3 /\ \E a \in 1..3 : arr.shape[a] = 0

Full == Rank3 /\ Cells(arr.shape) # {} /\ \A c \in Cells(arr.shape) : arr.data[c] = 1

Empty == Rank3 /\ Cells(arr.shape) # {} /\ \A c \in Cells(arr.shape) : arr.data[c] = 0

----------------------------------------------------------------------------
\* C1: from the end of the vertices pass on, in every state up to and after
\* the return of CubeMap, the cell [2i,2j,2k] of the buffer is 1 exactly when
\* voxel [i,j,k] of the input is 1: occupied voxels are present vertices and
\* no later pass turns the vertex cell of an unoccupied voxel into 1.
C1_VertexPlacement ==
  (Built /\ pc \in {"edges", "faces", "cubes", "cm_returned", "euler", "returned"})
    => \A c \in Cells(arr.shape) :
         (cubemap[<<2 * c[1], 2 * c[2], 2 * c[3]>>] = 1) <=> (arr.data[c] = 1)

\* CubeMap has returned for a grid with an unoccupied last voxel on an axis
\* of extent at least 2 whose wrapped neighbour (index 0) is occupied.
C1_Witness ==
  /\ pc = "cm_returned"
  /\ arr.shape[1] >= 2
  /\ arr.data[<<arr.shape[1] - 1, 0, 0>>] = 0
  /\ arr.data[<<0, 0, 0>>] = 1

\* C2: in the array CubeMap returns, every present cell has, on each axis on
\* which its coordinate is odd, both cells one step away on that axis present.
C2_Closure ==
  CubeMapDone =>
    \A c \in DOMAIN cubemap :
      cubemap[c] = 1 =>
        \A a \in 1..3 :
          c[a] % 2 = 1 => cubemap[Step(c, a, -1)] = 1 /\ cubemap[Step(c, a, 1)] = 1

\* CubeMap has returned an array with a present cube cell.
C2_Witness ==
  /\ pc = "cm_returned"
  /\ \E c \in DOMAIN cubemap : NOdd(c) = 3 /\ cubemap[c] = 1

\* C3: EulerCharacteristic_seq returns the number of cells equal to 1 with
\* even x+y+z minus the number with odd x+y+z, which is V - E + F - C for the
\* counts of cells equal to 1 with 0, 1, 2 and 3 odd coordinates.
C3_EulerAlternatingSum ==
  (pc = "returned" /\ fn = "EulerCharacteristic_seq") =>
    /\ chi = Cardinality({c \in Ones(A) : (c[1] + c[2] + c[3]) % 2 = 0})
             - Cardinality({c \in Ones(A) : (c[1] + c[2] + c[3]) % 2 = 1})
    /\ chi = CountDim(A, 0) - CountDim(A, 1) + CountDim(A, 2) - CountDim(A, 3)

\* EulerCharacteristic_seq has returned for a CubeMap with cells of every
\* dimension present.
C3_Witness ==
  /\ pc = "returned"
  /\ Built
  /\ A.data = cubemap
  /\ \A d \in 0..3 : CountDim(A, d) >= 1

\* C4: for a fully occupied grid CubeMap returns the array of shape
\* (2nx-1, 2ny-1, 2nz-1) whose cells are all 1, and EulerCharacteristic_seq
\* of that array returns 1.
C4_FullGrid ==
  /\ (CubeMapDone /\ Full) => cubemap = [c \in Cells(OutShape(arr.shape)) |-> 1]
  /\ (pc = "returned" /\ Built /\ Full) =>
       /\ A.shape = <<2 * arr.shape[1] - 1, 2 * arr.shape[2] - 1, 2 * arr.shape[3] - 1>>
       /\ chi = 1

\* The pipeline has finished for the fully occupied grid of shape (2,1,1).
C4_Witness ==
  /\ pc = "returned"
  /\ Built
  /\ Full
  /\ arr.shape = <<2, 1, 1>>
  /\ cubemap = (<<0, 0, 0>> :> 1) @@ (<<1, 0, 0>> :> 1) @@ (<<2, 0, 0>> :> 1)

\* C5: for an all-zero grid CubeMap returns an all-zero array and
\* EulerCharacteristic_seq of it returns 0.
C5_EmptyGrid ==
  /\ (CubeMapDone /\ Empty) => \A c \in DOMAIN cubemap : cubemap[c] = 0
  /\ (pc = "returned" /\ Built /\ Empty) => chi = 0

\* The pipeline has finished for an all-zero grid with an axis of extent 1
\* (a cell is its own wrapped neighbour) and an axis of extent at least 2.
C5_Witness ==
  /\ pc = "returned"
  /\ Built
  /\ Empty
  /\ arr.shape[2] = 1
  /\ arr.shape[1] >= 2

\* C6 as stated: a call of CubeMap or EulerCharacteristic_seq with an array
\* whose rank is not 3 ends in a ShapeError and returns nothing.
C6_Original ==
  (~Rank3 /\ fn # "none") => (pc = "raised" /\ exc = "ShapeError")

\* C6: a call of CubeMap or EulerCharacteristic_seq with an array whose rank
\* is not 3 ends in the ValueError of the failed unpacking of the shape,
\* before any buffer is allocated; the behaviour never reaches a return.
C6_RankRejected ==
  ~Rank3 =>
    /\ pc \in {"start", "raised"}
    /\ cubemap = <<>>
    /\ fn # "none" => (pc = "raised" /\ exc = "ValueError")

\* EulerCharacteristic_seq has raised on an array of rank 4, or CubeMap on
\* one of rank 2.
C6_Witness ==
  /\ pc = "raised"
  /\ \/ Len(arr.shape) = 4 /\ fn = "EulerCharacteristic_seq"
     \/ Len(arr.shape) = 2 /\ fn = "CubeMap"

\* C7 as stated: a rank-3 array with an axis of length 0 is rejected with a
\* ShapeError by both functions, neither returns.
C7_Original ==
  (ZeroAxis /\ fn # "none") => (pc = "raised" /\ exc = "ShapeError")

\* C7: for a rank-3 array with an axis of length 0, CubeMap raises the
\* ValueError of the allocation with a negative extent and returns no array,
\* while EulerCharacteristic_seq visits no cell and returns chi = 0.
C7_ZeroAxis ==
  ZeroAxis =>
    /\ cubemap = <<>>
    /\ fn = "CubeMap" => (pc = "raised" /\ exc = "ValueError")
    /\ fn = "EulerCharacteristic_seq" => (pc = "returned" /\ exc = "none" /\ chi = 0)

\* EulerCharacteristic_seq has returned for an array of shape (2,0,1).
C7_Witness ==
  /\ arr.shape = <<2, 0, 1>>
  /\ fn = "EulerCharacteristic_seq"
  /\ pc = "returned"

\* C8 as stated: there is an occupancy grid for which the variant that
\* evaluates the edges and faces passes against the buffer as it stood before
\* the pass returns an array different from the one CubeMap returns (the
\* grid is any array CubeMap accepts, the one of this behaviour included).
C8_Original ==
  \E a \in Grids \cup {arr} :
    /\ Len(a.shape) = 3
    /\ Cells(a.shape) # {}
    /\ JacobiCubeMap(a) # CubeMapOf(a)

\* C8: the in-place scan of the edges and faces passes does not change the
\* result: for every occupancy grid the array CubeMap returns equals the one
\* returned by the variant that evaluates every cell of the edges pass and of
\* the faces pass against the buffer as it stood before that pass.
C8_ScanOrderIrrelevant ==
  pc = "cm_returned" => cubemap = JacobiCubeMap(arr)

\* CubeMap has returned for a grid in which a visit of the edges pass read a
\* cell written earlier in the same pass: an absent face cell whose lower
\* x-neighbour is a present edge.
C8_Witness ==
  /\ pc = "cm_returned"
  /\ \E c \in DOMAIN cubemap :
       /\ NOdd(c) = 2
       /\ c[1] % 2 = 1
       /\ cubemap[c] = 0
       /\ cubemap[Step(c, 1, -1)] = 1

\* C9: in the array CubeMap returns, a cell is 1 exactly when every voxel of
\* the input at a corner of the cell (c/2 for an even coordinate c, (c-1)/2
\* and (c+1)/2 for an odd one, no wrap-around) is 1.
C9_ExactCharacterisation ==
  CubeMapDone =>
    \A c \in DOMAIN cubemap :
      (cubemap[c] = 1) <=> (\A v \in Corners(c) : arr.data[v] = 1)

\* CubeMap has returned for a grid of x-extent 3 whose two end voxels are
\* occupied and whose middle voxel is not: the wrapped neighbours of the
\* cells at both ends are present.
C9_Witness ==
  /\ pc = "cm_returned"
  /\ arr.shape[1] = 3
  /\ arr.data[<<0, 0, 0>>] = 1
  /\ arr.data[<<1, 0, 0>>] = 0
  /\ arr.data[<<2, 0, 0>>] = 1

\* The largest cell dimension a pass may have produced so far.
MaxOdd(p, q) ==
  IF p = "vertices" \/ (p = "edges" /\ q = First) THEN 0
  ELSE IF p = "edges" \/ (p = "faces" /\ q = First) THEN 1
  ELSE IF p = "faces" \/ (p = "cubes" /\ q = First) THEN 2
  ELSE 3

\* C10: in every step a cell that is 1 stays 1, and in the state reached the
\* present cells have no odd coordinate up to the end of the vertices pass,
\* at most one up to the end of the edges pass, at most two up to the end of
\* the faces pass: cube cells become present only in the cubes pass.
C10_DimensionalMonotone ==
  [][ /\ \A c \in DOMAIN cubemap : cubemap[c] = 1 => cubemap'[c] = 1
      /\ \A c \in DOMAIN cubemap' : cubemap'[c] = 1 => NOdd(c) <= MaxOdd(pc', pos') ]_vars

\* The cubes pass has set a cube cell that was absent when the pass began.
C10_Witness ==
  /\ pc = "cubes"
  /\ pos = <<1, 1, 2>>
  /\ cubemap[<<1, 1, 1>>] = 1

====
